---- MODULE Spec2Model ----
(***************************************************************************)
(* A model of the pycmor_test_data_fesom package:                          *)
(*   - FesomDevModelRun.fetch_real_meshdir   (the git-lfs mesh clone cache) *)
(*   - generate_stub_datadir / generate_stub_meshdir and the mesh-file      *)
(*     synthesizer _create_minimal_mesh_files of both model-run variants    *)
(*   - the pytest fixtures of config.py, datadir.py and datasets.py         *)
(***************************************************************************)
EXTENDS Integers, Sequences, FiniteSets, TLC

VARIABLES
    dir,      \* the cache directory pi_mesh_git on disk
    pc,       \* per test session: position inside fetch_real_meshdir
    ran,      \* per test session: the external steps of the current/last call
    ret,      \* per test session: outcome of the last finished call
    ncalls,   \* per test session: calls of fetch_real_meshdir started
    nclone,   \* number of git clone commands run so far (all sessions)
    missAt,   \* per test session: nclone at the moment its cache check ran
    fs,       \* the stub directory handed out by tmp_path_factory
    last,     \* the last stub operation and how it ended
    net,      \* number of network operations performed
    cache,    \* pytest's session cache of the accessor fixtures
    outcome   \* per test: what its fixture request produced

fetchVars == <<dir, pc, ran, ret, ncalls, nclone, missAt, net>>
stubVars == <<fs, last>>
fixtureVars == <<cache, outcome>>
vars == <<dir, pc, ran, ret, ncalls, nclone, missAt, net, fs, last, cache, outcome>>

(***************************************************************************)
(* Bounds                                                                  *)
(***************************************************************************)
MaxCalls == 2

Sessions == {"s1", "s2"}

Range(s) == {s[k] : k \in 1..Len(s)}

(***************************************************************************)
(* Python's number formatting, as used by the f-strings of the package     *)
(***************************************************************************)
Digits == <<"0", "1", "2", "3", "4", "5", "6", "7", "8", "9">>

\* str(n) for n >= 0
RECURSIVE NatStr(_)
NatStr(n) == IF n < 10 THEN Digits[n + 1] ELSE NatStr(n \div 10) \o Digits[(n % 10) + 1]

\* right-justify s in a field of width w (a longer s is kept whole)
RECURSIVE PadLeft(_, _)
PadLeft(s, w) == IF Len(s) >= w THEN s ELSE PadLeft(" " \o s, w)

(***************************************************************************)
(* Stub directories and the mesh-file synthesizer                          *)
(*                                                                         *)
(* A path is the sequence of its components below the stub root.  A file   *)
(* is the sequence of its lines, a line the sequence of the pieces the     *)
(* f-string joins (literal text and formatted fields), so that equal files *)
(* are byte-identical files.  A float is kept as sign and magnitude in     *)
(* hundredths: every value the generator computes is a multiple of 0.01    *)
(* up to the rounding error of IEEE doubles (below 1e-12), which the       *)
(* formats with 7 and with 1 decimals do not show; the sign is kept apart  *)
(* because -100.0 * 0 is the negative zero, printed with its sign.         *)
(***************************************************************************)
Pos(h) == [neg |-> FALSE, mag |-> h]

Neg(h) == [neg |-> TRUE, mag |-> h]

\* f"{n:8d}"
Fmt8d(n) == PadLeft(NatStr(n), 8)

\* f"{x:14.7f}"
Fmt14_7f(x) ==
    PadLeft((IF x.neg THEN "-" ELSE "") \o NatStr(x.mag \div 100) \o "."
            \o Digits[((x.mag % 100) \div 10) + 1] \o Digits[(x.mag % 10) + 1] \o "00000", 14)

\* f"{x:.1f}" (the values formatted this way are whole numbers)
Fmt1f(x) ==
    (IF x.neg THEN "-" ELSE "") \o NatStr(x.mag \div 100) \o "."
    \o Digits[((x.mag % 100) \div 10) + 1]

MeshNames == {"nod2d.out", "elem2d.out", "nod3d.out", "elem3d.out", "aux3d.out", "depth.out"}

\* open(path, "a"): what the write would do without truncation
WriteFile_append(files, path, content) ==
    [q \in DOMAIN files \cup {path} |->
        IF q = path THEN (IF path \in DOMAIN files THEN files[path] \o content ELSE content)
                    ELSE files[q]]

\* with open(path, "w") as f: ...   creates the file or truncates it
WriteFile(files, path, content) ==
    [q \in DOMAIN files \cup {path} |-> IF q = path THEN content ELSE files[q]]

\* ---- fesom_2p6.py: _create_minimal_mesh_files ----

\* f"{i:8d} {lon:14.7f}  {lat:14.7f}        0\n" with lon = 300.0 + i * 0.1
\* and lat = 74.0 + i * 0.05
Nod2dLine_2p6(i) ==
    <<Fmt8d(i), " ", Fmt14_7f(Pos(30000 + i * 10)), "  ",
      Fmt14_7f(Pos(7400 + i * 5)), "        0\n">>

Nod2d_2p6 == <<<<"10\n">>>> \o [i \in 1..10 |-> Nod2dLine_2p6(i)]

\* the two lines written for element i: n1, n2, n3 = i, i + 1, i + 2
Elem2dLineA_2p6(i) == <<Fmt8d(i), " ", Fmt8d(i), " ", Fmt8d(i + 1), "\n">>

Elem2dLineB_2p6(i) == <<Fmt8d(i + 1), " ", Fmt8d(i + 2), " ", Fmt8d((i % 8) + 1), "\n">>

Elem2d_2p6 ==
    <<<<"5\n">>>> \o [k \in 1..10 |-> IF k % 2 = 1 THEN Elem2dLineA_2p6((k + 1) \div 2)
                                                  ELSE Elem2dLineB_2p6(k \div 2)]

\* lon = 300.0 + (i % 10) * 0.1
Nod3dLon_2p6(i) == Pos(30000 + (i % 10) * 10)

\* lat = 74.0 + (i % 10) * 0.05
Nod3dLat_2p6(i) == Pos(7400 + (i % 10) * 5)

\* depth = -100.0 * (i // 10)
Nod3dDepth_2p6(i) == Neg(10000 * (i \div 10))

\* f"{i:8d} {lon:14.7f}  {lat:14.7f} {depth:14.7f}        0\n"
Nod3dLine_2p6(i) ==
    <<Fmt8d(i), " ", Fmt14_7f(Nod3dLon_2p6(i)), "  ", Fmt14_7f(Nod3dLat_2p6(i)), " ",
      Fmt14_7f(Nod3dDepth_2p6(i)), "        0\n">>

Nod3d_2p6 == <<<<"30\n">>>> \o [i \in 1..30 |-> Nod3dLine_2p6(i)]

\* n1, n2, n3, n4 = i, i + 1, i + 2, i + 10
Elem3dLine_2p6(i) ==
    <<Fmt8d(i), " ", Fmt8d(i + 1), " ", Fmt8d(i + 2), " ", Fmt8d(i + 10), "\n">>

Elem3d_2p6 == <<<<"10\n">>>> \o [i \in 1..10 |-> Elem3dLine_2p6(i)]

Aux3d_2p6 == << <<"3\n">>, <<"       1\n">>, <<"      11\n">>, <<"      21\n">> >>

\* f"   {-100.0 - i * 50:.1f}\n" for i in range(10)
DepthLine_2p6(i) == <<"   ", Fmt1f(Neg(10000 + i * 5000)), "\n">>

Depth_2p6 == [k \in 1..10 |-> DepthLine_2p6(k - 1)]

\* the six open(mesh_dir / name, "w") blocks, in the order of the source
MeshFiles_2p6(files, sub) ==
    WriteFile(WriteFile(WriteFile(WriteFile(WriteFile(WriteFile(files,
        Append(sub, "nod2d.out"), Nod2d_2p6),
        Append(sub, "elem2d.out"), Elem2d_2p6),
        Append(sub, "nod3d.out"), Nod3d_2p6),
        Append(sub, "elem3d.out"), Elem3d_2p6),
        Append(sub, "aux3d.out"), Aux3d_2p6),
        Append(sub, "depth.out"), Depth_2p6)

\* ---- fesom_dev.py: _create_minimal_mesh_files ----

\* f"{i:8d} {lon:14.7f}  {lat:14.7f}        0\n" with lon = 300.0 + i * 0.1
\* and lat = 74.0 + i * 0.05
Nod2dLine_dev(i) ==
    <<Fmt8d(i), " ", Fmt14_7f(Pos(30000 + i * 10)), "  ",
      Fmt14_7f(Pos(7400 + i * 5)), "        0\n">>

Nod2d_dev == <<<<"10\n">>>> \o [i \in 1..10 |-> Nod2dLine_dev(i)]

\* the two lines written for element i: n1, n2, n3 = i, i + 1, i + 2
Elem2dLineA_dev(i) == <<Fmt8d(i), " ", Fmt8d(i), " ", Fmt8d(i + 1), "\n">>

Elem2dLineB_dev(i) == <<Fmt8d(i + 1), " ", Fmt8d(i + 2), " ", Fmt8d((i % 8) + 1), "\n">>

Elem2d_dev ==
    <<<<"5\n">>>> \o [k \in 1..10 |-> IF k % 2 = 1 THEN Elem2dLineA_dev((k + 1) \div 2)
                                                  ELSE Elem2dLineB_dev(k \div 2)]

\* lon = 300.0 + (i % 10) * 0.1
Nod3dLon_dev(i) == Pos(30000 + (i % 10) * 10)

\* lat = 74.0 + (i % 10) * 0.05
Nod3dLat_dev(i) == Pos(7400 + (i % 10) * 5)

\* depth = -100.0 * (i // 10)
Nod3dDepth_dev(i) == Neg(10000 * (i \div 10))

\* f"{i:8d} {lon:14.7f}  {lat:14.7f} {depth:14.7f}        0\n"
Nod3dLine_dev(i) ==
    <<Fmt8d(i), " ", Fmt14_7f(Nod3dLon_dev(i)), "  ", Fmt14_7f(Nod3dLat_dev(i)), " ",
      Fmt14_7f(Nod3dDepth_dev(i)), "        0\n">>

Nod3d_dev == <<<<"30\n">>>> \o [i \in 1..30 |-> Nod3dLine_dev(i)]

\* n1, n2, n3, n4 = i, i + 1, i + 2, i + 10
Elem3dLine_dev(i) ==
    <<Fmt8d(i), " ", Fmt8d(i + 1), " ", Fmt8d(i + 2), " ", Fmt8d(i + 10), "\n">>

Elem3d_dev == <<<<"10\n">>>> \o [i \in 1..10 |-> Elem3dLine_dev(i)]

Aux3d_dev == << <<"3\n">>, <<"       1\n">>, <<"      11\n">>, <<"      21\n">> >>

\* f"   {-100.0 - i * 50:.1f}\n" for i in range(10)
DepthLine_dev(i) == <<"   ", Fmt1f(Neg(10000 + i * 5000)), "\n">>

Depth_dev == [k \in 1..10 |-> DepthLine_dev(k - 1)]

\* the six open(mesh_dir / name, "w") blocks, in the order of the source
MeshFiles_dev(files, sub) ==
    WriteFile(WriteFile(WriteFile(WriteFile(WriteFile(WriteFile(files,
        Append(sub, "nod2d.out"), Nod2d_dev),
        Append(sub, "elem2d.out"), Elem2d_dev),
        Append(sub, "nod3d.out"), Nod3d_dev),
        Append(sub, "elem3d.out"), Elem3d_dev),
        Append(sub, "aux3d.out"), Aux3d_dev),
        Append(sub, "depth.out"), Depth_dev)

\* ---- the stub directory ----
EmptyFiles == [q \in {} |-> <<>>]

EmptyDir == [files |-> EmptyFiles, dirs |-> {<<>>}]

Prefixes(path) == {SubSeq(path, 1, k) : k \in 0..Len(path)}

Parents(path) == {SubSeq(path, 1, k) : k \in 0..(Len(path) - 1)}

\* what the stub generator writes for a manifest entry
StubContent == << <<"stub">> >>

\* the files a stub manifest may declare
ManifestPaths ==
    { <<"outdata", "fesom", "temp.fesom.195001.01.nc">>,
      <<"nod2d.out">>,
      <<"input", "fesom", "mesh", "pi", "nod2d.out">> }

Manifests == SUBSET ManifestPaths

\* generate_stub_files(manifest, stub_dir) of pycmor.tutorial.stub_generator:
\* creates every declared file (and its directories) below stub_dir and
\* returns stub_dir
GenerateStubFiles(f, m) ==
    [files |-> [q \in DOMAIN f.files \cup m |-> IF q \in m THEN StubContent ELSE f.files[q]],
     dirs |-> f.dirs \cup UNION {Parents(q) : q \in m}]

\* mesh_dir.mkdir(parents=True, exist_ok=True)
Mkdir(f, sub) == [f EXCEPT !.dirs = @ \cup Prefixes(sub)]

PiMeshSub_wrong == <<"input", "fesom", "mesh">>

\* stub_dir / "input" / "fesom" / "mesh" / "pi"
PiMeshSub == <<"input", "fesom", "mesh", "pi">>

MeshTargets == {<<>>, PiMeshSub}

MeshOps == {"mesh_2p6", "mesh_dev"}

Brief(l) == [op |-> l.op, target |-> l.target, ok |-> l.ok]

Done(op, target, ok, m) ==
    [op |-> op, target |-> target, ok |-> ok, manifest |-> m, prev |-> Brief(last)]

\* tmp_path_factory hands out a new, empty directory
FreshTmpDir ==
    /\ fs' = EmptyDir
    /\ last' = Done("mktemp", <<>>, TRUE, {})
    /\ UNCHANGED <<fetchVars, fixtureVars>>

\* Fesom2p6ModelRun.generate_stub_datadir(stub_dir)
GenerateStubDatadir2p6(m) ==
    /\ LET g == Mkdir(GenerateStubFiles(fs, m), PiMeshSub)
       IN fs' = [g EXCEPT !.files = MeshFiles_2p6(g.files, PiMeshSub)]
    /\ last' = Done("datadir_2p6", PiMeshSub, TRUE, m)
    /\ UNCHANGED <<fetchVars, fixtureVars>>

\* FesomDevModelRun.generate_stub_datadir(stub_dir)
GenerateStubDatadirDev(m) ==
    /\ fs' = GenerateStubFiles(fs, m)
    /\ last' = Done("datadir_dev", <<>>, TRUE, m)
    /\ UNCHANGED <<fetchVars, fixtureVars>>

\* FesomDevModelRun.generate_stub_meshdir(stub_dir)
GenerateStubMeshdirDev(m) ==
    /\ LET g == GenerateStubFiles(fs, m)
       IN fs' = [g EXCEPT !.files = MeshFiles_dev(g.files, <<>>)]
    /\ last' = Done("meshdir_dev", <<>>, TRUE, m)
    /\ UNCHANGED <<fetchVars, fixtureVars>>

\* Fesom2p6ModelRun._create_minimal_mesh_files(mesh_dir); the first open()
\* raises FileNotFoundError when mesh_dir is no directory
CreateMinimalMeshFiles2p6(sub) ==
    /\ fs' = IF sub \in fs.dirs THEN [fs EXCEPT !.files = MeshFiles_2p6(@, sub)] ELSE fs
    /\ last' = Done("mesh_2p6", sub, sub \in fs.dirs, {})
    /\ UNCHANGED <<fetchVars, fixtureVars>>

\* FesomDevModelRun._create_minimal_mesh_files(mesh_dir)
CreateMinimalMeshFilesDev(sub) ==
    /\ fs' = IF sub \in fs.dirs THEN [fs EXCEPT !.files = MeshFiles_dev(@, sub)] ELSE fs
    /\ last' = Done("mesh_dev", sub, sub \in fs.dirs, {})
    /\ UNCHANGED <<fetchVars, fixtureVars>>

StubInit ==
    /\ fs = EmptyDir
    /\ last = [op |-> "mktemp", target |-> <<>>, ok |-> TRUE, manifest |-> {},
               prev |-> [op |-> "none", target |-> <<>>, ok |-> TRUE]]

(***************************************************************************)
(* The pytest fixtures of config.py, datadir.py and datasets.py            *)
(***************************************************************************)
Tests == {"t1", "t2", "t3"}

\* @pytest.fixture without a scope: the run-selector fixtures
Selectors == {"fesom_2p6_model_run", "fesom_dev_model_run"}

\* @pytest.fixture(scope="session"): the accessor fixtures
Accessors == {"fesom_2p6_datadir", "fesom_dev_datadir", "fesom_2p6_ds", "fesom_dev_ds"}

\* the scope each fixture is declared with (tmp_path_factory is pytest's own)
DeclaredScope(f) ==
    CASE f \in Accessors -> "session"
      [] f \in Selectors -> "function"
      [] f = "tmp_path_factory" -> "session"

\* the scope of fixture d as requested by fixture f: request has f's scope
FixtureScope(d, f) == IF d = "request" THEN DeclaredScope(f) ELSE DeclaredScope(d)

\* the parameters of each fixture function
FixtureDeps(f) ==
    CASE f \in Selectors -> {"tmp_path_factory", "request"}
      [] f \in {"fesom_2p6_datadir", "fesom_2p6_ds"} -> {"fesom_2p6_model_run"}
      [] f \in {"fesom_dev_datadir", "fesom_dev_ds"} -> {"fesom_dev_model_run"}

\* pytest's order of scopes, narrowest first
ScopeRank(scope) ==
    CASE scope = "function" -> 1
      [] scope = "class" -> 2
      [] scope = "module" -> 3
      [] scope = "package" -> 4
      [] scope = "session" -> 5

\* pytest refuses to set up a fixture that requests a fixture of a narrower
\* scope than its own (ScopeMismatch)
ScopeMismatch(f) ==
    \E d \in FixtureDeps(f) : ScopeRank(FixtureScope(d, f)) < ScopeRank(FixtureScope(f, f))

Variant(f) == IF f \in {"fesom_2p6_model_run", "fesom_2p6_datadir", "fesom_2p6_ds"}
              THEN "Fesom2p6ModelRun" ELSE "FesomDevModelRun"

\* Cls.from_module(__file__, use_real=use_real, tmp_path_factory=...)
RunObject(f, real) == [cls |-> Variant(f), use_real |-> real]

\* the property of the run object an accessor fixture returns
AccessorValue(f, run) ==
    [of |-> run, prop |-> IF f \in {"fesom_2p6_datadir", "fesom_dev_datadir"} THEN "datadir" ELSE "ds"]

Unset == [set |-> FALSE, value |-> <<>>]

NotRequested == [kind |-> "none", fixture |-> "", value |-> <<>>]

\* A test requests fixture f; real is what should_use_real_data(request) says.
RequestFixture(t, f, real) ==
    /\ outcome[t].kind = "none"
    /\ IF f \in Accessors /\ cache[f].set
       THEN /\ outcome' = [outcome EXCEPT ![t] =
                             [kind |-> "value", fixture |-> f, value |-> cache[f].value]]
            /\ cache' = cache
       ELSE IF ScopeMismatch(f)
       THEN /\ outcome' = [outcome EXCEPT ![t] =
                             [kind |-> "error", fixture |-> f, value |-> <<"ScopeMismatch">>]]
            /\ cache' = cache
       ELSE IF f \in Selectors
       THEN /\ outcome' = [outcome EXCEPT ![t] =
                             [kind |-> "value", fixture |-> f, value |-> RunObject(f, real)]]
            /\ cache' = cache
       ELSE LET v == AccessorValue(f, RunObject(f, real))
            IN /\ outcome' = [outcome EXCEPT ![t] =
                                [kind |-> "value", fixture |-> f, value |-> v]]
               /\ cache' = [cache EXCEPT ![f] = [set |-> TRUE, value |-> v]]
    /\ UNCHANGED <<fetchVars, stubVars>>

FixtureInit ==
    /\ cache = [f \in Accessors |-> Unset]
    /\ outcome = [t \in Tests |-> NotRequested]

(***************************************************************************)
(* fetch_real_meshdir                                                      *)
(***************************************************************************)
MESH_GIT_REPO == "https://gitlab.awi.de/fesom/pi"

MeshDirPath == <<"cache_dir", "pi_mesh_git">>

ProbeTimeout == 10

CloneTimeout == 300

\* The directory pi_mesh_git: whether it exists, whether it holds .git, whether
\* its content is the result of a clone that exited 0, and which clone command
\* (numbered from 1) wrote its content.
Absent == [exists |-> FALSE, git |-> FALSE, done |-> FALSE, gen |-> 0]

\* mesh_dir.exists() and (mesh_dir / ".git").exists()
CacheHit_stricter(d) == d.exists /\ d.git /\ d.done

CacheHit(d) == d.exists /\ d.git

\* What subprocess.run can do with ["git", "lfs", "version"]: exit with a code,
\* raise TimeoutExpired, or raise FileNotFoundError (no git binary).
Outcome(kind, rc, stderr, stdout, left) ==
    [kind |-> kind, rc |-> rc, stderr |-> stderr, stdout |-> stdout, left |-> left]

ProbeOutcomes ==
    { Outcome("exit", 0, "", "git-lfs/3.4.0", "same"),
      Outcome("exit", 1, "git: 'lfs' is not a git command.", "", "same"),
      Outcome("timeout", 0, "", "", "same"),
      Outcome("notfound", 0, "", "", "same") }

\* What subprocess.run can do with ["git", "clone", MESH_GIT_REPO, mesh_dir].
\* A clone into an existing non-empty directory is refused by git (exit 128)
\* and leaves it alone.  Otherwise the clone exits 0 and leaves a completed
\* clone, or exits non-zero, or is killed at the timeout; a failed or killed
\* clone leaves nothing, a directory without .git, or a directory with .git.
CloneOutcomes(d) ==
    IF d.exists
    THEN { Outcome("exit", 128, "fatal: destination path already exists", "", "same"),
           Outcome("notfound", 0, "", "", "same") }
    ELSE { Outcome("exit", 0, "Cloning into 'pi_mesh_git'...", "", "complete"),
           Outcome("notfound", 0, "", "", "same") }
         \cup { Outcome("exit", 1, "fatal: unable to access", "", l) : l \in {"none", "git"} }
         \cup { Outcome("exit", 128, "error: external filter 'git-lfs' failed", "Downloading", l) :
                    l \in {"nogit", "git"} }
         \cup { Outcome("timeout", 0, "", "", l) : l \in {"none", "nogit", "git"} }

DirAfter(d, o, id) ==
    CASE o.left = "same" -> d
      [] o.left = "none" -> Absent
      [] o.left = "nogit" -> [exists |-> TRUE, git |-> FALSE, done |-> FALSE, gen |-> id]
      [] o.left = "git" -> [exists |-> TRUE, git |-> TRUE, done |-> FALSE, gen |-> id]
      [] o.left = "complete" -> [exists |-> TRUE, git |-> TRUE, done |-> TRUE, gen |-> id]

\* if result.returncode != 0: raise   (the probe)
ProbeOk_unchecked(rc) == TRUE

ProbeOk(rc) == rc = 0

\* if result.returncode != 0: raise   (the clone)
CloneOk(rc) == rc = 0

LfsMissingMsg ==
    <<"git-lfs is not installed. Please install git-lfs to download mesh data.\n",
      "See: https://git-lfs.github.com/">>

\* f"Git clone timed out after {e.timeout} seconds"
TimeoutMsg(seconds) == <<"Git clone timed out after ", NatStr(seconds), " seconds">>

GitMissingMsg == <<"git command not found. Please install git.">>

CloneErrorMsg_noStderr(o) ==
    <<"Failed to clone mesh repository from ", MESH_GIT_REPO, "\n",
      "Git output: ", o.stdout, "\n">>

\* error_msg of the failed clone, as the pieces the f-string joins
CloneErrorMsg(o) ==
    <<"Failed to clone mesh repository from ", MESH_GIT_REPO, "\n",
      "Git error: ", o.stderr, "\n",
      "Git output: ", o.stdout, "\n">>

NoResult == [kind |-> "none", path |-> <<>>, snap |-> Absent, msg |-> <<>>]

Returned(d) == [kind |-> "path", path |-> MeshDirPath, snap |-> d, msg |-> <<>>]

Raised(m) == [kind |-> "error", path |-> <<>>, snap |-> Absent, msg |-> m]

StepRec(step, o, id) == [step |-> step, out |-> o, id |-> id]

NoOutcome == Outcome("none", 0, "", "", "same")

\* Entering fetch_real_meshdir: the cache check of lines 90-94.
Check(p) ==
    /\ pc[p] = "idle"
    /\ ncalls[p] < MaxCalls
    /\ ncalls' = [ncalls EXCEPT ![p] = @ + 1]
    /\ ran' = [ran EXCEPT ![p] = <<>>]
    /\ missAt' = [missAt EXCEPT ![p] = nclone]
    /\ IF CacheHit(dir)
       THEN /\ pc' = pc
            /\ ret' = [ret EXCEPT ![p] = Returned(dir)]
       ELSE /\ pc' = [pc EXCEPT ![p] = "probe"]
            /\ ret' = [ret EXCEPT ![p] = NoResult]
    /\ UNCHANGED <<dir, nclone, net, stubVars, fixtureVars>>

\* subprocess.run(["git", "lfs", "version"], timeout=10) and its returncode test
Probe(p) ==
    /\ pc[p] = "probe"
    /\ \E o \in ProbeOutcomes :
          /\ ran' = [ran EXCEPT ![p] = Append(@, StepRec("lfs", o, 0))]
          /\ IF o.kind = "exit" /\ ProbeOk(o.rc)
             THEN /\ pc' = [pc EXCEPT ![p] = "rmtree"]
                  /\ ret' = ret
             ELSE /\ pc' = [pc EXCEPT ![p] = "idle"]
                  /\ ret' = [ret EXCEPT ![p] =
                               Raised(CASE o.kind = "exit" -> LfsMissingMsg
                                        [] o.kind = "timeout" -> TimeoutMsg(ProbeTimeout)
                                        [] o.kind = "notfound" -> GitMissingMsg)]
    /\ UNCHANGED <<dir, ncalls, nclone, missAt, net, stubVars, fixtureVars>>

\* if mesh_dir.exists(): shutil.rmtree(mesh_dir)
\* (the test and the removal are taken as one step; id 1 marks a removal that
\* deleted a directory, id 0 one that found none)
Rmtree(p) ==
    /\ pc[p] = "rmtree"
    /\ IF dir.exists
       THEN /\ dir' = Absent
            /\ ran' = [ran EXCEPT ![p] = Append(@, StepRec("rmtree", NoOutcome, 1))]
       ELSE /\ dir' = dir
            /\ ran' = [ran EXCEPT ![p] = Append(@, StepRec("rmtree", NoOutcome, 0))]
    /\ pc' = [pc EXCEPT ![p] = "clone"]
    /\ UNCHANGED <<ret, ncalls, nclone, missAt, net, stubVars, fixtureVars>>

\* Nothing but the caller's own position guards the clone: no lock is taken.
ClonePre_locked(p) == pc[p] = "clone" /\ \A q \in Sessions \ {p} : pc[q] = "idle"

ClonePre(p) == pc[p] = "clone"

\* subprocess.run(["git", "clone", ...], timeout=300), its returncode test, the
\* except clauses and the final return mesh_dir
Clone(p) ==
    /\ ClonePre(p)
    /\ \E o \in CloneOutcomes(dir) :
          /\ nclone' = nclone + 1
          /\ net' = net + (IF o.kind = "notfound" THEN 0 ELSE 1)
          /\ dir' = DirAfter(dir, o, nclone + 1)
          /\ ran' = [ran EXCEPT ![p] = Append(@, StepRec("clone", o, nclone + 1))]
          /\ pc' = [pc EXCEPT ![p] = "idle"]
          /\ ret' = [ret EXCEPT ![p] =
                       CASE o.kind = "exit" /\ CloneOk(o.rc) -> Returned(dir')
                         [] o.kind = "exit" /\ ~CloneOk(o.rc) -> Raised(CloneErrorMsg(o))
                         [] o.kind = "timeout" -> Raised(TimeoutMsg(CloneTimeout))
                         [] o.kind = "notfound" -> Raised(GitMissingMsg)]
    /\ UNCHANGED <<ncalls, missAt, stubVars, fixtureVars>>

FetchInit ==
    /\ dir = Absent
    /\ pc = [p \in Sessions |-> "idle"]
    /\ ran = [p \in Sessions |-> <<>>]
    /\ ret = [p \in Sessions |-> NoResult]
    /\ ncalls = [p \in Sessions |-> 0]
    /\ nclone = 0
    /\ missAt = [p \in Sessions |-> 0]
    /\ net = 0

Init == FetchInit /\ StubInit /\ FixtureInit

FetchNext == \E p \in Sessions : Check(p) \/ Probe(p) \/ Rmtree(p) \/ Clone(p)

SpecFetch == Init /\ [][FetchNext]_vars

StubNext ==
    \/ FreshTmpDir
    \/ \E m \in Manifests : GenerateStubDatadir2p6(m)
    \/ \E m \in Manifests : GenerateStubDatadirDev(m)
    \/ \E m \in Manifests : GenerateStubMeshdirDev(m)
    \/ \E sub \in MeshTargets : CreateMinimalMeshFiles2p6(sub)
    \/ \E sub \in MeshTargets : CreateMinimalMeshFilesDev(sub)

SpecStub == Init /\ [][StubNext]_vars

FixtureNext ==
    \E t \in Tests, f \in Selectors \cup Accessors, real \in BOOLEAN : RequestFixture(t, f, real)

SpecFixture == Init /\ [][FixtureNext]_vars

Next == FetchNext \/ StubNext \/ FixtureNext

Spec == Init /\ [][Next]_vars

(***************************************************************************)
(* Properties of the stub directories and of the mesh files                *)
(***************************************************************************)

\* operations that end with the six mesh files written below last.target
MeshWriters == MeshOps \cup {"datadir_2p6", "meshdir_dev"}

\* C3 (as stated): for each of the two variants the directory produced by
\* generate_stub_datadir holds the manifest-declared files plus the six mesh
\* files at the variant's path (input/fesom/mesh/pi for Fesom2p6ModelRun, the
\* stub root for FesomDevModelRun), and no network operation is performed.
C3_StubDatadirHoldsMeshFiles ==
    (last.op \in {"datadir_2p6", "datadir_dev"} /\ last.ok) =>
        LET sub == IF last.op = "datadir_2p6" THEN <<"input", "fesom", "mesh", "pi">> ELSE <<>>
        IN /\ last.manifest \subseteq DOMAIN fs.files
           /\ \A n \in MeshNames :
                 /\ Append(sub, n) \in DOMAIN fs.files
                 /\ fs.files[Append(sub, n)] # StubContent
           /\ net = 0

\* C3 (amended): Fesom2p6ModelRun.generate_stub_datadir leaves the manifest-
\* declared files plus the six mesh files under input/fesom/mesh/pi;
\* FesomDevModelRun.generate_stub_datadir adds the manifest-declared files and
\* nothing else (no mesh file is generated); it is
\* FesomDevModelRun.generate_stub_meshdir that leaves the manifest-declared
\* files plus the six mesh files directly in the stub root.  None of the
\* three performs a network operation.
C3_StubDirsPerVariant ==
    [][/\ last'.op = "datadir_2p6" =>
            /\ last'.manifest \subseteq DOMAIN fs'.files
            /\ \A n \in MeshNames :
                  /\ <<"input", "fesom", "mesh", "pi", n>> \in DOMAIN fs'.files
                  /\ fs'.files[<<"input", "fesom", "mesh", "pi", n>>] # StubContent
            /\ net' = net
       /\ last'.op = "datadir_dev" =>
            /\ DOMAIN fs'.files = DOMAIN fs.files \cup last'.manifest
            /\ \A q \in DOMAIN fs'.files :
                  fs'.files[q] = IF q \in last'.manifest THEN StubContent ELSE fs.files[q]
            /\ net' = net
       /\ last'.op = "meshdir_dev" =>
            /\ last'.manifest \subseteq DOMAIN fs'.files
            /\ \A n \in MeshNames :
                  /\ <<n>> \in DOMAIN fs'.files
                  /\ fs'.files[<<n>>] # StubContent
            /\ net' = net]_vars

\* the dev variant's generate_stub_datadir ran on the directory the 2.6
\* variant's had filled: the manifest files are there, the mesh files are
\* under input/fesom/mesh/pi, and none was put into the stub root
C3_Witness ==
    /\ last.op = "datadir_dev" /\ last.prev.op = "datadir_2p6"
    /\ last.manifest # {} /\ last.manifest \subseteq DOMAIN fs.files
    /\ <<"input", "fesom", "mesh", "pi", "elem2d.out">> \in DOMAIN fs.files
    /\ <<"elem2d.out">> \notin DOMAIN fs.files

\* C6: mesh-file generation is idempotent and deterministic: run on an empty
\* directory it leaves exactly the six mesh files; run again on the same
\* target, by the same or by the other variant's copy of the generator, it
\* leaves every file byte-identical (the directory does not change).
C6_MeshGenerationIdempotent ==
    [][(last'.op \in MeshOps /\ last'.ok) =>
          /\ DOMAIN fs.files = {} =>
                DOMAIN fs'.files = {Append(last'.target, n) : n \in MeshNames}
          /\ (last.op \in MeshOps /\ last.ok /\ last.target = last'.target) =>
                fs' = fs]_vars

\* the dev copy of the generator ran right after the 2.6 copy on the same
\* directory, which holds exactly the six mesh files
C6_Witness ==
    /\ last.op = "mesh_dev" /\ last.ok
    /\ last.prev.op = "mesh_2p6" /\ last.prev.ok /\ last.prev.target = last.target
    /\ DOMAIN fs.files = {Append(last.target, n) : n \in MeshNames}

\* C9: in nod3d.out the record of every index i in 1..30 has the longitude
\* and latitude of the nod2d.out record at the same position in the cycle of
\* 10 (2D index k = ((i-1) mod 10) + 1, longitude 300.0 + k*0.1, latitude
\* 74.0 + k*0.05), and its depth is -100 * (i div 10).
C9_Nod3dRepeatsNod2dCycle ==
    (last.op \in MeshWriters /\ last.ok) =>
        LET n3 == fs.files[Append(last.target, "nod3d.out")]
            n2 == fs.files[Append(last.target, "nod2d.out")]
        IN \A i \in 1..30 :
              LET k == ((i - 1) % 10) + 1
              IN /\ n3[i + 1][1] = Fmt8d(i)
                 /\ n3[i + 1][3] = n2[k + 1][3]
                 /\ n3[i + 1][3] = Fmt14_7f(Pos(30000 + k * 10))
                 /\ n3[i + 1][5] = n2[k + 1][5]
                 /\ n3[i + 1][5] = Fmt14_7f(Pos(7400 + k * 5))
                 /\ n3[i + 1][7] \in {Fmt14_7f(Neg(10000 * (i \div 10))),
                                       Fmt14_7f(Pos(10000 * (i \div 10)))}

\* the node index an aux3d.out line holds
AuxIndex(line) == CHOOSE n \in 0..99 : Fmt8d(n) \o "\n" = line[1]

\* C10: the three layer-start indices of aux3d.out (1, 11, 21) split the 30
\* nodes of nod3d.out into the layers 1..10, 11..20 and 21..30; nodes of one
\* layer have the same depth in nod3d.out, nodes of different layers have
\* different depths.
C10_LayersShareDepth ==
    (last.op \in MeshWriters /\ last.ok) =>
        LET n3 == fs.files[Append(last.target, "nod3d.out")]
            aux == fs.files[Append(last.target, "aux3d.out")]
            start == [j \in 1..3 |-> AuxIndex(aux[j + 1])]
            Layer(i) == Cardinality({j \in 1..3 : start[j] <= i})
        IN /\ start = <<1, 11, 21>>
           /\ \A i, j \in 1..30 :
                 (Layer(i) = Layer(j)) <=> (n3[i + 1][7] = n3[j + 1][7])

(***************************************************************************)
(* Properties of the fixtures                                              *)
(***************************************************************************)

\* C5: every test of one session that requests an accessor fixture
\* (fesom_2p6_datadir, fesom_dev_datadir, fesom_2p6_ds, fesom_dev_ds) gets a
\* value, the datadir / ds property of the run object of the run-selector
\* fixture, and all tests of the session get the same value, resolved once.
C5_AccessorValueCachedForSession ==
    \A t \in Tests :
        outcome[t].fixture \in Accessors =>
            /\ outcome[t].kind = "value"
            /\ \E real \in BOOLEAN :
                  outcome[t].value = AccessorValue(outcome[t].fixture,
                                                   RunObject(outcome[t].fixture, real))
            /\ cache[outcome[t].fixture].set
            /\ outcome[t].value = cache[outcome[t].fixture].value
            /\ \A u \in Tests :
                  outcome[u].fixture = outcome[t].fixture => outcome[u].value = outcome[t].value

(***************************************************************************)
(* Properties of fetch_real_meshdir                                        *)
(***************************************************************************)

\* C1: every call of fetch_real_meshdir that returns normally returns a
\* directory that holds a completed clone (the result of a clone command that
\* exited with code 0), never one left by a failed or interrupted clone.
C1_ReturnedDirIsCompletedClone ==
    \A p \in Sessions : ret[p].kind = "path" => ret[p].snap.done

\* C2: a call made while pi_mesh_git exists and holds .git returns that
\* directory, runs no external command (no probe, no clone, no network) and
\* leaves the directory as it was; this holds for every such call, so for
\* every repetition.
C2_CachedCloneReturnedUntouched ==
    [][\A p \in Sessions :
          (pc[p] = "idle" /\ ncalls'[p] = ncalls[p] + 1 /\ dir.exists /\ dir.git)
          => /\ pc'[p] = "idle"
             /\ ret'[p].kind = "path"
             /\ ret'[p].path = MeshDirPath
             /\ ret'[p].snap = dir
             /\ ran'[p] = <<>>
             /\ dir' = dir
             /\ nclone' = nclone
             /\ net' = net]_vars

\* a session whose second call was answered from the cache, the directory
\* still being the one it was given
C2_Witness ==
    \E p \in Sessions :
        /\ ncalls[p] >= 2 /\ pc[p] = "idle"
        /\ ret[p].kind = "path" /\ ran[p] = <<>> /\ ret[p].snap = dir /\ dir.git

\* C4: when no completed clone is cached, the probe succeeded and git clone
\* exited with a non-zero code, the call raises (returns no path) and the
\* error message contains the stderr text captured from the clone.
C4_CloneFailureRaisesWithStderr ==
    \A p \in Sessions :
        ( /\ pc[p] = "idle" /\ Len(ran[p]) = 3
          /\ ran[p][1].step = "lfs" /\ ran[p][1].out.rc = 0
          /\ ran[p][3].step = "clone"
          /\ ran[p][3].out.kind = "exit" /\ ran[p][3].out.rc # 0 )
        => /\ ret[p].kind = "error"
           /\ ran[p][3].out.stderr \in Range(ret[p].msg)

\* a clone that exited with code 1 and wrote a stderr text
C4_Witness ==
    \E p \in Sessions :
        /\ pc[p] = "idle" /\ Len(ran[p]) = 3
        /\ ran[p][3].out.kind = "exit" /\ ran[p][3].out.rc = 1
        /\ ran[p][3].out.stderr # ""
        /\ ret[p].kind = "error"

C7Order(r) ==
    \A k \in 1..Len(r) :
        /\ r[k].step = "lfs" => k = 1
        /\ r[k].step = "rmtree" =>
               k = 2 /\ r[1].step = "lfs" /\ r[1].out.kind = "exit" /\ r[1].out.rc = 0
        /\ r[k].step = "clone" => k = 3 /\ r[2].step = "rmtree"

\* C7: on the path without a cached clone the steps of one call run in the
\* order probe, removal, clone: the removal only after the probe exited 0, the
\* clone only after the removal step; a probe that exits non-zero, times out or
\* finds no git binary makes the call raise, with no clone command run and
\* the cache directory unchanged.
C7_ProbeThenRemoveThenClone ==
    [][\A p \in Sessions :
          /\ C7Order(ran'[p])
          /\ ( /\ pc[p] = "probe" /\ pc'[p] # "probe"
               /\ ~(ran'[p][1].out.kind = "exit" /\ ran'[p][1].out.rc = 0) )
             => /\ pc'[p] = "idle"
                /\ ret'[p].kind = "error"
                /\ dir' = dir
                /\ nclone' = nclone
                /\ \A k \in 1..Len(ran'[p]) : ran'[p][k].step # "clone"]_vars

\* one session ran probe, a removal that deleted a directory, and the clone;
\* the other one's probe failed and its call raised
C7_Witness ==
    \E p, q \in Sessions :
        /\ Len(ran[p]) = 3 /\ ran[p][2].step = "rmtree" /\ ran[p][2].id = 1
        /\ ran[p][3].step = "clone"
        /\ pc[q] = "idle" /\ Len(ran[q]) = 1 /\ ran[q][1].out.rc # 0
        /\ ret[q].kind = "error"

\* C8: the cache check is not atomic with the clone: a session that passed
\* the check is never held back by what another session does in between, so
\* its probe, removal and clone stay possible in every reachable state.
C8_NothingPreventsSecondClone ==
    \A p \in Sessions :
        /\ pc[p] = "probe" => ENABLED Probe(p)
        /\ pc[p] = "rmtree" => ENABLED Rmtree(p)
        /\ pc[p] = "clone" => ENABLED Clone(p)

\* both sessions passed the existence check before either clone ran, and both
\* then ran git clone into pi_mesh_git
C8_Witness ==
    \E p, q \in Sessions :
        /\ p # q
        /\ Len(ran[p]) = 3 /\ Len(ran[q]) = 3
        /\ ran[p][3].step = "clone" /\ ran[q][3].step = "clone"
        /\ ran[p][3].out.kind # "notfound" /\ ran[q][3].out.kind # "notfound"
        /\ ran[p][3].id > missAt[q] /\ ran[q][3].id > missAt[p]

====
